---- MODULE Spec2Model ----
(***************************************************************************)
(* Model of the logseq-mediatimestamp plugin: the floating player engine   *)
(* (src/src/floatingPlayer.ts) and the video locator getVideoEl            *)
(* (src/unnamed/part_001).                                                 *)
(*                                                                         *)
(* The DOM is modelled as ordered child lists of the block containers and  *)
(* of the floating container.  The engine's module-level variables keep    *)
(* their source names.  Every handler is one action; handlers that call    *)
(* other handlers are composed as functions on the packed state record.    *)
(***************************************************************************)
EXTENDS Integers, Sequences, FiniteSets, TLC

\* ---------------------------------------------------------------- bounds
\* Number of non-video sibling nodes in block B; the host editor may delete
\* each of them.
NumSiblings == 1

\* ------------------------------------------------------- program constants
\* Clamp margin of onDrag.
DragMargin == 10
\* Default corner offset of the container (right / bottom).
CornerOffset == 20
\* Height of the drag handle (the strip that receives mousedown).
HandleHeight == 24

SIZE_MAP ==
  [ small    |-> [width |-> 240, height |-> 135],
    medium   |-> [width |-> 320, height |-> 180],
    large    |-> [width |-> 400, height |-> 225],
    xlarge   |-> [width |-> 480, height |-> 270],
    xxlarge  |-> [width |-> 640, height |-> 360],
    xxxlarge |-> [width |-> 800, height |-> 450] ]

\* ------------------------------------------------------------ DOM nodes
Null == <<"null", 0>>
Vid(i) == <<"video", i>>
Txt(i) == <<"text", i>>
Ph(i) == <<"placeholder", i>>

\* The document's two videos, A and B of the properties: Vid(1) and Vid(2).
VideoEls == {Vid(1), Vid(2)}
TextNodes == {Txt(i) : i \in 1..NumSiblings}
\* Two identities suffice for "a freshly created div": at most one older
\* placeholder is still referenced (by the observer) when a new one is made.
Placeholders == {Ph(1), Ph(2)}

\* Block containers (div#ls-block-<uuid>), in document order: the parent
\* block, the left sibling, the block itself.  "fc" is the floating container.
Blocks == {"P", "L", "B"}
DocOrder == <<"P", "L", "B">>
FC == "fc"
Containers == Blocks \cup {FC}

\* The host's block table: getBlock(uuid) -> {uuid, left?, parent?}.
BlockLeft(b) == IF b = "B" THEN "L" ELSE "none"
BlockParent(b) == IF b \in {"B", "L"} THEN "P" ELSE "none"

VARIABLES
  recentlyPlayedVideo,  \* tracked video or Null
  floatingContainer,    \* TRUE iff the container element exists (non-null)
  observer,             \* TRUE iff the IntersectionObserver exists (non-null)
  observed,             \* the observer's targets
  queued,               \* targets whose initial notification is still due
  isManuallyHidden,
  isDragging,
  dragOffset,           \* [x, y]
  dragDoc,              \* TRUE iff non-null: mousemove/mouseup listeners attached
  currentSettings,      \* [enabled, size]
  videoState,           \* [video, originalParent, originalNextSibling, placeholder] or NoState
  isFloating,
  style,                \* the container's inline style
  playListener,         \* TRUE iff the capture 'play' listener is attached
  children,             \* [Containers -> Seq(node)]: the DOM
  videoStyle,           \* per video: inline width/height ("orig" or "100%")
  savedStyles,          \* per video: _originalStyles ("none" when absent)
  paused,               \* per video
  currentTime,          \* per video, in ticks of 1/TicksPerSecond s
  slotInView,           \* per video: is its place in the document inside the viewport
  viewport,             \* [width, height] of the top window
  home,                 \* per video: the block it was in when the plugin loaded
  loc,                  \* the locator call in flight: [pc, uuid, result]
  macro,                \* time argument (a string) of the timestamp macro the
                        \* slash command inserted last
  lastTransition,       \* history: what the last step did to DOCKED/FLOATING
  snap                  \* history: the origin's child list when the video left

vars == << recentlyPlayedVideo, floatingContainer, observer, observed, queued,
           isManuallyHidden, isDragging, dragOffset, dragDoc, currentSettings,
           videoState, isFloating, style, playListener, children, videoStyle,
           savedStyles, paused, currentTime, slotInView, viewport, home, loc,
           macro, lastTransition, snap >>

NoSnap == [seq |-> <<>>, touched |-> FALSE]

NoState == [video |-> Null, originalParent |-> "none",
            originalNextSibling |-> Null, placeholder |-> Null]

\* The container's inline style as createFloatingContainer leaves it.
\* anchor "corner": right/bottom 20px are in effect (from the stylesheet rule
\* or from the inline style hideFloatingPlayer writes) and left/top are unset;
\* anchor "lefttop": onDrag has set left/top and cleared right/bottom.
InitialStyle == [display |-> "none", width |-> 0, height |-> 0,
                 anchor |-> "corner", left |-> 0, top |-> 0]

\* ---------------------------------------------------------- DOM helpers
Range(seq) == {seq[i] : i \in 1..Len(seq)}

IndexOf(seq, n) == CHOOSE i \in 1..Len(seq) : seq[i] = n

\* node.parentElement ("none" when detached)
ParentOf(ch, n) ==
  IF \E c \in DOMAIN ch : n \in Range(ch[c])
  THEN CHOOSE c \in DOMAIN ch : n \in Range(ch[c])
  ELSE "none"

\* node.nextSibling
NextSibling(ch, n) ==
  LET p == ParentOf(ch, n)
      i == IndexOf(ch[p], n)
  IN  IF i < Len(ch[p]) THEN ch[p][i + 1] ELSE Null

\* parent.removeChild(n) / the removal half of every insertion
RemoveNode(ch, n) ==
  [c \in DOMAIN ch |-> SelectSeq(ch[c], LAMBDA x : x # n)]

\* Faulty variant of InsertBefore: the node goes to the end of the parent.
\* C3 must not survive it.
InsertAtEnd(ch, p, n, ref) ==
  LET ch1 == RemoveNode(ch, n)
  IN  [ch1 EXCEPT ![p] = Append(@, n)]

\* parent.insertBefore(n, ref)
InsertBefore(ch, p, n, ref) ==
  LET ch1 == RemoveNode(ch, n)
      i == IndexOf(ch1[p], ref)
  IN  [ch1 EXCEPT ![p] = SubSeq(@, 1, i - 1) \o <<n>> \o SubSeq(@, i, Len(@))]

\* Faulty variant of AppendChild: the node stays where it is.  C2 must not
\* survive it.
KeepInPlace(ch, p, n) == ch

\* parent.appendChild(n)
AppendChild(ch, p, n) ==
  LET ch1 == RemoveNode(ch, n)
  IN  [ch1 EXCEPT ![p] = Append(@, n)]

\* container.querySelector('video'): first video in the block's subtree
VideosIn(seq) == SelectSeq(seq, LAMBDA x : x \in VideoEls)

\* ------------------------------------------------------- packed state
\* The part of the state the engine's handlers read and write.
State ==
  [ recentlyPlayedVideo |-> recentlyPlayedVideo,
    floatingContainer |-> floatingContainer,
    observer |-> observer,
    observed |-> observed,
    queued |-> queued,
    isManuallyHidden |-> isManuallyHidden,
    isDragging |-> isDragging,
    dragOffset |-> dragOffset,
    dragDoc |-> dragDoc,
    currentSettings |-> currentSettings,
    videoState |-> videoState,
    isFloating |-> isFloating,
    style |-> style,
    playListener |-> playListener,
    children |-> children,
    videoStyle |-> videoStyle,
    savedStyles |-> savedStyles,
    paused |-> paused,
    currentTime |-> currentTime ]

Commit(s) ==
  /\ recentlyPlayedVideo' = s.recentlyPlayedVideo
  /\ floatingContainer' = s.floatingContainer
  /\ observer' = s.observer
  /\ observed' = s.observed
  /\ queued' = s.queued
  /\ isManuallyHidden' = s.isManuallyHidden
  /\ isDragging' = s.isDragging
  /\ dragOffset' = s.dragOffset
  /\ dragDoc' = s.dragDoc
  /\ currentSettings' = s.currentSettings
  /\ videoState' = s.videoState
  /\ isFloating' = s.isFloating
  /\ style' = s.style
  /\ playListener' = s.playListener
  /\ children' = s.children
  /\ videoStyle' = s.videoStyle
  /\ savedStyles' = s.savedStyles
  /\ paused' = s.paused
  /\ currentTime' = s.currentTime

\* ------------------------------------------------- IntersectionObserver
\* observer.disconnect(): no target is watched, nothing stays queued.
Disconnect(s) == [s EXCEPT !.observed = {}, !.queued = {}]

\* observer.observe(t): t is watched and its initial notification is queued.
Observe(s, t) == [s EXCEPT !.observed = @ \cup {t}, !.queued = @ \cup {t}]

\* ------------------------------------------------------------- engine
\* document.createElement('div') for the placeholder: an element nothing
\* refers to yet.
NewPlaceholder(s) == CHOOSE p \in Placeholders : p \notin s.observed

showFloatingPlayer(s) ==
  IF \/ s.recentlyPlayedVideo = Null
     \/ ~s.floatingContainer
     \/ ~s.currentSettings.enabled
     \/ s.isManuallyHidden
     \/ s.isFloating
  THEN s
  ELSE
    LET video == s.recentlyPlayedVideo
        parent == ParentOf(s.children, video)
    IN  IF parent = "none" THEN s
        ELSE
          LET ph == NewPlaceholder(s)
              vs == [video |-> video,
                     originalParent |-> parent,
                     originalNextSibling |-> NextSibling(s.children, video),
                     placeholder |-> ph]
              size == SIZE_MAP[s.currentSettings.size]
              ch1 == InsertBefore(s.children, parent, ph, video)
              ch2 == AppendChild(ch1, FC, video)
          IN  [s EXCEPT
                 !.videoState = vs,
                 !.savedStyles[video] = s.videoStyle[video],
                 !.videoStyle[video] = "100%",
                 !.style.width = size.width,
                 !.style.height = size.height,
                 !.style.display = "block",
                 !.children = ch2,
                 !.isFloating = TRUE]

\* Faulty variant of hideFloatingPlayer: the video is always appended to its
\* original parent, the recorded next sibling is ignored.  C4 must not survive
\* it.
hideFloatingPlayerAppend(s) ==
  IF ~s.floatingContainer \/ ~s.isFloating \/ s.videoState = NoState
  THEN s
  ELSE
    LET video == s.videoState.video
        ch1 == AppendChild(s.children, s.videoState.originalParent, video)
        ch2 == RemoveNode(ch1, s.videoState.placeholder)
    IN  [s EXCEPT
           !.videoStyle[video] = s.savedStyles[video],
           !.savedStyles[video] = "none",
           !.children = ch2,
           !.style.display = "none",
           !.style.anchor = "corner",
           !.style.left = 0,
           !.style.top = 0,
           !.videoState = NoState,
           !.isFloating = FALSE]

hideFloatingPlayer(s) ==
  IF ~s.floatingContainer \/ ~s.isFloating \/ s.videoState = NoState
  THEN s
  ELSE
    LET video == s.videoState.video
        originalParent == s.videoState.originalParent
        originalNextSibling == s.videoState.originalNextSibling
        placeholder == s.videoState.placeholder
        restored == IF s.savedStyles[video] # "none"
                    THEN s.savedStyles[video]
                    ELSE s.videoStyle[video]
        ch1 == IF /\ originalNextSibling # Null
                  /\ ParentOf(s.children, originalNextSibling) = originalParent
               THEN InsertBefore(s.children, originalParent, video,
                                 originalNextSibling)
               ELSE AppendChild(s.children, originalParent, video)
        ch2 == IF ParentOf(ch1, placeholder) # "none"
               THEN RemoveNode(ch1, placeholder)
               ELSE ch1
    IN  [s EXCEPT
           !.videoStyle[video] = restored,
           !.savedStyles[video] = "none",
           !.children = ch2,
           !.style.display = "none",
           !.style.anchor = "corner",
           !.style.left = 0,
           !.style.top = 0,
           !.videoState = NoState,
           !.isFloating = FALSE]

\* Faulty variant of the close listener: the manual-hide flag is not set.
\* C6 must not survive it.
closeClickNoFlag(s) == hideFloatingPlayer(s)

\* The close button's click listener.
closeClick(s) == [hideFloatingPlayer(s) EXCEPT !.isManuallyHidden = TRUE]

\* Faulty variant of handleVideoPlay: a floating video is not returned when
\* another video starts to play.  C1 and C22 must not survive it.
handleVideoPlayKeepFloating(s, video) ==
  LET s1 == IF s.recentlyPlayedVideo # video
            THEN [s EXCEPT !.isManuallyHidden = FALSE]
            ELSE s
      s2 == [s1 EXCEPT !.recentlyPlayedVideo = video]
  IN  IF s2.observer
      THEN LET targetToObserve ==
                 IF s2.isFloating /\ s2.videoState # NoState
                 THEN s2.videoState.placeholder
                 ELSE video
           IN  Observe(Disconnect(s2), targetToObserve)
      ELSE s2

handleVideoPlay(s, video) ==
  LET s1 == IF s.recentlyPlayedVideo # video
            THEN LET s0 == [s EXCEPT !.isManuallyHidden = FALSE]
                 IN  IF /\ s0.isFloating
                        /\ s0.videoState # NoState
                        /\ s0.videoState.video # video
                     THEN hideFloatingPlayer(s0)
                     ELSE s0
            ELSE s
      s2 == [s1 EXCEPT !.recentlyPlayedVideo = video]
  IN  IF s2.observer
      THEN LET targetToObserve ==
                 IF s2.isFloating /\ s2.videoState # NoState
                 THEN s2.videoState.placeholder
                 ELSE video
           IN  Observe(Disconnect(s2), targetToObserve)
      ELSE s2

\* Faulty variant of handleIntersection: after the placeholder came back into
\* view the observer is not pointed at the video.  C12 must not survive it.
handleIntersectionNoRetarget(s, target, isIntersecting) ==
  LET isTargetValid ==
        IF s.isFloating
        THEN s.videoState # NoState /\ target = s.videoState.placeholder
        ELSE target = s.recentlyPlayedVideo
  IN  IF ~isTargetValid THEN s
      ELSE IF ~isIntersecting /\ ~s.isFloating
      THEN LET s1 == showFloatingPlayer(s)
           IN  IF s1.observer /\ s1.videoState # NoState
               THEN Observe(Disconnect(s1), s1.videoState.placeholder)
               ELSE s1
      ELSE IF isIntersecting /\ s.isFloating
      THEN [hideFloatingPlayer(s) EXCEPT !.isManuallyHidden = FALSE]
      ELSE s

\* One entry of the IntersectionObserver callback.
handleIntersection(s, target, isIntersecting) ==
  LET isTargetValid ==
        IF s.isFloating
        THEN s.videoState # NoState /\ target = s.videoState.placeholder
        ELSE target = s.recentlyPlayedVideo
  IN  IF ~isTargetValid THEN s
      ELSE IF ~isIntersecting /\ ~s.isFloating
      THEN LET s1 == showFloatingPlayer(s)
           IN  IF s1.observer /\ s1.videoState # NoState
               THEN Observe(Disconnect(s1), s1.videoState.placeholder)
               ELSE s1
      ELSE IF isIntersecting /\ s.isFloating
      THEN LET s1 == [hideFloatingPlayer(s) EXCEPT !.isManuallyHidden = FALSE]
           IN  IF s1.observer /\ s1.recentlyPlayedVideo # Null
               THEN Observe(Disconnect(s1), s1.recentlyPlayedVideo)
               ELSE s1
      ELSE s

\* --------------------------------------------------------------- drag
\* floatingContainer.getBoundingClientRect(): left/top of the fixed container.
RectLeft(s, vp) ==
  IF s.style.display = "none" THEN 0
  ELSE IF s.style.anchor = "lefttop" THEN s.style.left
  ELSE vp.width - CornerOffset - s.style.width

RectTop(s, vp) ==
  IF s.style.display = "none" THEN 0
  ELSE IF s.style.anchor = "lefttop" THEN s.style.top
  ELSE vp.height - CornerOffset - s.style.height

Max(a, b) == IF a >= b THEN a ELSE b
Min(a, b) == IF a <= b THEN a ELSE b

startDrag(s, vp, clientX, clientY) ==
  IF ~s.floatingContainer THEN s
  ELSE [s EXCEPT
          !.isDragging = TRUE,
          !.dragDoc = TRUE,
          !.dragOffset = [x |-> clientX - RectLeft(s, vp),
                          y |-> clientY - RectTop(s, vp)]]

\* Faulty variant of ClampX: the 10px margin is left out.  C8 must not survive
\* it.
ClampXNoMargin(newX, viewportWidth, size) ==
  Max(0, Min(newX, viewportWidth - size.width))

\* The clamp of onDrag.
ClampX(newX, viewportWidth, size) ==
  Max(DragMargin, Min(newX, viewportWidth - size.width - DragMargin))

ClampY(newY, viewportHeight, size) ==
  Max(DragMargin, Min(newY, viewportHeight - size.height - DragMargin))

onDrag(s, vp, clientX, clientY) ==
  IF ~s.isDragging \/ ~s.floatingContainer THEN s
  ELSE
    LET size == SIZE_MAP[s.currentSettings.size]
        newX == ClampX(clientX - s.dragOffset.x, vp.width, size)
        newY == ClampY(clientY - s.dragOffset.y, vp.height, size)
    IN  [s EXCEPT
           !.style.anchor = "lefttop",
           !.style.left = newX,
           !.style.top = newY]

\* Faulty variant of stopDrag: the pointer-up also returns the video.  C19 must
\* not survive it.
stopDragAndDock(s) ==
  [hideFloatingPlayer(s) EXCEPT !.isDragging = FALSE, !.dragDoc = FALSE]

\* Faulty variant of stopDrag: the listeners stay on the document.  C20 must
\* not survive it.
stopDragKeepListeners(s) == [s EXCEPT !.isDragging = FALSE]

stopDrag(s) ==
  [s EXCEPT !.isDragging = FALSE, !.dragDoc = FALSE]

\* ----------------------------------------------------- settings, teardown
\* Faulty variant of updateFloatingPlayerSettings: disabling does not return a
\* floating video.  C13 must not survive it.
updateFloatingPlayerSettingsNoReturn(s, settings) ==
  LET s1 == [s EXCEPT !.currentSettings = settings]
  IN  IF s1.floatingContainer /\ s1.style.display # "none"
      THEN [s1 EXCEPT
              !.style.width = SIZE_MAP[settings.size].width,
              !.style.height = SIZE_MAP[settings.size].height]
      ELSE s1

updateFloatingPlayerSettings(s, settings) ==
  LET s1 == [s EXCEPT !.currentSettings = settings]
      s2 == IF ~settings.enabled /\ s1.floatingContainer
            THEN hideFloatingPlayer(s1)
            ELSE s1
  IN  IF s2.floatingContainer /\ s2.style.display # "none"
      THEN [s2 EXCEPT
              !.style.width = SIZE_MAP[settings.size].width,
              !.style.height = SIZE_MAP[settings.size].height]
      ELSE s2

destroyFloatingPlayer(s) ==
  LET s1 == hideFloatingPlayer(s)
  IN  [s1 EXCEPT
         !.playListener = FALSE,
         !.observer = FALSE,
         !.observed = {},
         !.queued = {},
         !.floatingContainer = FALSE,
         !.style = InitialStyle,
         !.children = [@ EXCEPT ![FC] = <<>>],
         !.recentlyPlayedVideo = Null,
         !.isManuallyHidden = FALSE,
         !.isFloating = FALSE,
         !.videoState = NoState]

getFloatingVideo(s) ==
  IF s.isFloating /\ s.videoState # NoState THEN s.videoState.video ELSE Null

\* Faulty variant of returnFloatingVideo: the video is rewound as well.  C9
\* must not survive it.
returnFloatingVideoRewind(s, pauseVideo) ==
  IF s.isFloating /\ s.videoState # NoState
  THEN hideFloatingPlayer([s EXCEPT !.paused[s.videoState.video] = pauseVideo,
                                    !.currentTime[s.videoState.video] = 0])
  ELSE s

returnFloatingVideo(s, pauseVideo) ==
  IF s.isFloating /\ s.videoState # NoState
  THEN LET s1 == IF pauseVideo
                 THEN [s EXCEPT !.paused[s.videoState.video] = TRUE]
                 ELSE s
       IN  hideFloatingPlayer(s1)
  ELSE s

\* ------------------------------------------------------------ locator
\* getVideoEl(uuid).  The awaits of lines 140-179 only talk to the host's block
\* API and read nothing of the engine or the DOM, so the call is modelled from
\* its first read of shared state: LocateBegin is lines 139-198 (the floating
\* check and the search of the block itself run without an await in between),
\* LocateLeft lines 201-212, LocateParent lines 215-226.  The caller continues
\* in the same microtask chain in which getVideoEl returns: SlashFinish or
\* ClickFinish.
Idle == [pc |-> "idle", uuid |-> "none", result |-> Null]
Rejected == <<"rejected", 0>>
\* ... rejected by the lookup of the left sibling / of the parent (lines 172, 177)
RejectedLeft == <<"rejected", 1>>
RejectedParent == <<"rejected", 2>>
\* What a getBlock call of the host's block API may do.
Outcomes == {"ok", "null", "throw"}

\* container.querySelector('video')
findVideoInBlock(ch, blockUuid) ==
  LET vs == VideosIn(ch[blockUuid])
  IN  IF vs # <<>> THEN vs[1] ELSE Null

\* container.querySelector('.mediatimestamp-video-placeholder') !== null
hasPlaceholder(ch, blockUuid) ==
  \E i \in 1..Len(ch[blockUuid]) : ch[blockUuid][i] \in Placeholders

\* blocksToCheck of lines 169-179, given the outcomes of the two getBlock calls
BlocksToCheck(uuid, oLeft, oParent) ==
  {uuid}
    \cup (IF BlockLeft(uuid) # "none" /\ oLeft = "ok"
          THEN {BlockLeft(uuid)} ELSE {})
    \cup (IF BlockParent(uuid) # "none" /\ oParent = "ok"
          THEN {BlockParent(uuid)} ELSE {})

\* Where the search goes after the block itself / after the left sibling.
AfterCurrent(uuid) ==
  IF BlockLeft(uuid) # "none" THEN "left"
  ELSE IF BlockParent(uuid) # "none" THEN "parent"
  ELSE "done"

AfterLeft(uuid) == IF BlockParent(uuid) # "none" THEN "parent" ELSE "done"

\* Faulty variant of FloatingCheck: a floating video of an unrelated block is
\* left floating while the block is searched.  C17 must not survive it.
FloatingCheckNoReturn(s, uuid, blocksToCheck) ==
  LET floatingVideo == getFloatingVideo(s)
      related == \E b \in blocksToCheck : hasPlaceholder(s.children, b)
      videoEl == findVideoInBlock(s.children, uuid)
  IN  IF floatingVideo # Null /\ related
      THEN [state |-> s, pc |-> "done", result |-> floatingVideo]
      ELSE IF videoEl # Null
      THEN [state |-> s, pc |-> "done", result |-> videoEl]
      ELSE [state |-> s, pc |-> AfterCurrent(uuid), result |-> Null]

\* Lines 181-198: the result ("pending" when the search goes on) and the
\* engine state after it.
FloatingCheck(s, uuid, blocksToCheck) ==
  LET floatingVideo == getFloatingVideo(s)
      related == \E b \in blocksToCheck : hasPlaceholder(s.children, b)
      s1 == IF floatingVideo # Null /\ ~related
            THEN returnFloatingVideo(s, TRUE)
            ELSE s
      videoEl == findVideoInBlock(s1.children, uuid)
  IN  IF floatingVideo # Null /\ related
      THEN [state |-> s, pc |-> "done", result |-> floatingVideo]
      ELSE IF videoEl # Null
      THEN [state |-> s1, pc |-> "done", result |-> videoEl]
      ELSE [state |-> s1, pc |-> AfterCurrent(uuid), result |-> Null]

\* ------------------------------------------------- timestamp macros
\* Playback times are counted in ticks of 1e-7 s, fine enough for the times
\* whose decimal string needs an exponent.
TicksPerSecond == 10000000

DigitChars == <<"0", "1", "2", "3", "4", "5", "6", "7", "8", "9">>
Digit(d) == DigitChars[d + 1]
IsDigit(c) == \E i \in 1..10 : DigitChars[i] = c
DigitValue(c) == (CHOOSE i \in 1..10 : DigitChars[i] = c) - 1

\* The decimal digits of a natural number.
RECURSIVE NatToString(_)
NatToString(n) ==
  IF n < 10 THEN <<Digit(n)>>
  ELSE NatToString(n \div 10) \o <<Digit(n % 10)>>

\* The digits of the fraction f / 10^width without trailing zeros.
RECURSIVE FracDigits(_, _)
FracDigits(f, width) ==
  IF f = 0 THEN <<>>
  ELSE <<Digit(f \div 10^(width - 1))>>
         \o FracDigits(f % 10^(width - 1), width - 1)

\* `${videoEl.currentTime}`: Number::toString of a time of t ticks (below
\* 1e21 s).  A positive number below 1e-6 is written with an exponent.
NumberToString(t) ==
  IF t = 0 THEN <<"0">>
  ELSE IF t < 10 THEN <<Digit(t), "e", "-", "7">>
  ELSE NatToString(t \div TicksPerSecond)
         \o (IF t % TicksPerSecond = 0 THEN <<>>
             ELSE <<".">> \o FracDigits(t % TicksPerSecond, 7))

NaN == "NaN"

RECURSIVE ParseDigits(_, _)
ParseDigits(str, acc) ==
  IF str = <<>> \/ ~IsDigit(Head(str)) THEN acc
  ELSE ParseDigits(Tail(str), 10 * acc + DigitValue(Head(str)))

\* parseInt(str) of a string without leading blanks or sign: the value of the
\* longest prefix of digits, NaN when there is none.
StartsWithDigit(str) == str # <<>> /\ IsDigit(Head(str))

parseInt(str) == IF StartsWithDigit(str) THEN ParseDigits(str, 0) ELSE NaN

\* The button's label of the macro renderer: `Timestamp: ${parseInt(time)}s`.
ButtonLabel(time) ==
  <<"Timestamp: ">>
    \o (IF StartsWithDigit(time) THEN NatToString(parseInt(time)) ELSE <<NaN>>)
    \o <<"s">>

\* The click handler's seek target in seconds: parseInt(time) || 0.
ClickTime(time) == IF StartsWithDigit(time) THEN parseInt(time) ELSE 0

\* ------------------------------------------------------------ inputs
\* Spec: every kind of event, with one size, one viewport, one pointer position
\* timestamp buttons that all carry time 0, and a block API that answers.
Sizes == {"medium"}
SettingsInputs == [enabled : BOOLEAN, size : Sizes]
Viewports == {[width |-> 1280, height |-> 720]}
\* Pointer positions of mousemove events, <<clientX, clientY>>.
Pointers == {<<-100, -100>>}
\* Where on the drag handle the mousedown lands, relative to the container.
Grabs == {<<0, 0>>}
SeekTimes == {0}
HostAnswers == {"ok"}

\* SpecDrag: the geometry of dragging, with viewports narrower or lower than
\* the container plus its margins and pointers outside the viewport.
DragSizes == {"small", "medium", "xxxlarge"}
DragSettingsInputs == [enabled : {TRUE}, size : DragSizes]
DragViewports == {[width |-> 1280, height |-> 720],
                  [width |-> 820, height |-> 460],
                  [width |-> 300, height |-> 150]}
DragPointers == {<<-100, -100>>, <<5000, 5000>>, <<400, 300>>, <<-100, 5000>>}
DragGrabs == {<<0, 0>>, <<100, HandleHeight>>}

\* SpecPlayback: timestamp buttons with different times.
PlaybackSeekTimes == {0, 125}

\* SpecMacro: playback positions (in ticks) a playing video passes through:
\* 0, 5e-7 s, 1e-6 s, 0.7 s, 125 s, 125.7 s.
MacroTimes == {0, 5, 10, 7000000, 1250000000, 1257000000}

\* ----------------------------------------------------- initial layouts
RECURSIVE Perms(_)
Perms(S) ==
  IF S = {} THEN {<<>>}
  ELSE UNION {{<<x>> \o p : p \in Perms(S \ {x})} : x \in S}

\* Videos (and text nodes) are interchangeable, so only the layouts that
\* number them in document order are enumerated.
BlockRank(b) == CHOOSE i \in 1..Len(DocOrder) : DocOrder[i] = b

Sorted(seq) ==
  \A i, j \in 1..Len(seq) :
    (i < j /\ seq[i][1] = seq[j][1]) => seq[i][2] < seq[j][2]

HomeChoices ==
  {hm \in [VideoEls -> Blocks] :
     \A v, w \in VideoEls : v[2] < w[2] => BlockRank(hm[v]) <= BlockRank(hm[w])}

\* The one layout of SpecDrag and SpecPlayback's choice of layouts.
SpreadHome == [v \in VideoEls |-> IF v = Vid(1) THEN "P" ELSE "L"]

\* Both videos in the parent block P: a locate for L or B ends at the parent.
ParentHome == [v \in VideoEls |-> "P"]

Orders(S) == {p \in Perms(S) : Sorted(p)}

NodesAt(hm, b) ==
  {v \in VideoEls : hm[v] = b} \cup (IF b = "B" THEN TextNodes ELSE {})

\* document.querySelectorAll('video'), in document order
DocVideos(ch) == VideosIn(ch["P"] \o ch["L"] \o ch["B"])

\* The state initFloatingPlayer(settings) leaves, called once from main.
InitWith(viewports, settingsInputs, homes, pausedChoices) ==
  /\ viewport \in viewports
  /\ loc = Idle
  /\ macro = NumberToString(0)
  /\ lastTransition = "none"
  /\ snap = NoSnap
  /\ home \in homes
  /\ \E p \in Orders(NodesAt(home, "P")), l \in Orders(NodesAt(home, "L")),
        b \in Orders(NodesAt(home, "B")) :
       children = [c \in Containers |->
                     IF c = "P" THEN p ELSE IF c = "L" THEN l
                     ELSE IF c = "B" THEN b ELSE <<>>]
  /\ paused \in pausedChoices
  /\ currentTime = [v \in VideoEls |-> 0]
  /\ slotInView = [v \in VideoEls |-> TRUE]
  /\ videoStyle = [v \in VideoEls |-> "orig"]
  /\ savedStyles = [v \in VideoEls |-> "none"]
  /\ currentSettings \in settingsInputs
  /\ isManuallyHidden = FALSE
  /\ isDragging = FALSE
  /\ dragOffset = [x |-> 0, y |-> 0]
  /\ dragDoc = FALSE
  /\ videoState = NoState
  /\ isFloating = FALSE
  /\ style = InitialStyle
  /\ floatingContainer = currentSettings.enabled
  /\ observer = currentSettings.enabled
  /\ playListener = currentSettings.enabled
  /\ LET playing == SelectSeq(DocVideos(children), LAMBDA v : ~paused[v])
     IN  IF currentSettings.enabled /\ playing # <<>>
         THEN /\ recentlyPlayedVideo = playing[Len(playing)]
              /\ observed = Range(playing)
              /\ queued = Range(playing)
         ELSE /\ recentlyPlayedVideo = Null
              /\ observed = {}
              /\ queued = {}

Init == InitWith(Viewports, SettingsInputs, HomeChoices, [VideoEls -> BOOLEAN])

\* ------------------------------------------------------------ actions
\* No returned locator call is waiting for its caller's continuation (which
\* runs before any other task).
Ready == loc.pc # "done"

EnvUnchanged == UNCHANGED <<slotInView, viewport, home, loc, macro>>

\* History variables (no handler reads them).  lastTransition names the
\* DOCKED/FLOATING transition the step made: "float", or "dock:" and the kind
\* of event that returned the video, or "none".  snap keeps the child list the
\* floating video's original parent had just before the video left, and
\* whether the host has edited that parent since; it is kept through the step
\* that returns the video and dropped by the step after.
DockKinds == {"dock:play", "dock:visibility", "dock:close", "dock:settings",
              "dock:teardown", "dock:locator"}

History(dockKind) ==
  /\ lastTransition' =
       IF isFloating /\ ~isFloating' THEN dockKind
       ELSE IF ~isFloating /\ isFloating' THEN "float"
       ELSE "none"
  /\ snap' =
       IF ~isFloating' THEN (IF isFloating THEN snap ELSE NoSnap)
       ELSE IF ~isFloating
       THEN [seq |-> children[videoState'.originalParent], touched |-> FALSE]
       ELSE IF children'[videoState.originalParent]
                 # children[videoState.originalParent]
       THEN [snap EXCEPT !.touched = TRUE]
       ELSE snap

\* A 'play' event on video v (the user presses play, or play() is called on a
\* paused video); the capture listener runs handleVideoPlay.
PlayEvent(v) ==
  /\ Ready
  /\ paused[v]
  /\ LET s == [State EXCEPT !.paused[v] = FALSE]
     IN  Commit(IF playListener THEN handleVideoPlay(s, v) ELSE s)
  /\ EnvUnchanged
  /\ History("dock:play")

\* The user pauses video v.
PauseVideo(v) ==
  /\ Ready
  /\ ~paused[v]
  /\ Commit([State EXCEPT !.paused[v] = TRUE])
  /\ EnvUnchanged
  /\ History("n/a")

\* The element that sits at video v's place in the document: the video, or
\* its placeholder while the video is in the floating container.
SlotElement(v) ==
  IF ParentOf(children, v) = FC /\ videoState.video = v
  THEN videoState.placeholder
  ELSE v

\* Whether element t currently intersects the viewport.
Intersecting(t) ==
  IF t \in VideoEls
  THEN IF ParentOf(children, t) = FC THEN style.display = "block"
       ELSE slotInView[t]
  ELSE /\ ParentOf(children, t) # "none"
       /\ videoState.placeholder = t
       /\ slotInView[videoState.video]

\* Scrolling moves video v's place into or out of the viewport; the observer
\* reports the change if it watches the element there.
Scroll(v) ==
  /\ Ready
  /\ slotInView' = [slotInView EXCEPT ![v] = ~slotInView[v]]
  /\ LET t == SlotElement(v)
     IN  IF observer /\ t \in observed
         THEN Commit(handleIntersection([State EXCEPT !.queued = @ \ {t}],
                                        t, ~slotInView[v]))
         ELSE Commit(State)
  /\ UNCHANGED <<viewport, home, loc, macro>>
  /\ History("dock:visibility")

\* The initial notification the observer delivers after observe(t).
ObserverInitial(t) ==
  /\ Ready
  /\ observer
  /\ t \in queued
  /\ Commit(handleIntersection([State EXCEPT !.queued = @ \ {t}],
                               t, Intersecting(t)))
  /\ EnvUnchanged
  /\ History("dock:visibility")

\* Click on the close button (reachable only while the container is shown).
CloseClick ==
  /\ Ready
  /\ floatingContainer
  /\ style.display = "block"
  /\ Commit(closeClick(State))
  /\ EnvUnchanged
  /\ History("dock:close")

\* mousedown on the drag handle (reachable only while the container is shown).
StartDragWith(grabs) ==
  /\ Ready
  /\ floatingContainer
  /\ style.display = "block"
  /\ \E g \in grabs :
       Commit(startDrag(State, viewport,
                        RectLeft(State, viewport) + g[1],
                        RectTop(State, viewport) + g[2]))
  /\ EnvUnchanged
  /\ History("n/a")

\* mousemove on the document while the drag listeners are attached.
OnDragWith(pointers) ==
  /\ Ready
  /\ dragDoc
  /\ \E c \in pointers : Commit(onDrag(State, viewport, c[1], c[2]))
  /\ EnvUnchanged
  /\ History("n/a")

\* mouseup on the document while the drag listeners are attached.
StopDrag ==
  /\ Ready
  /\ dragDoc
  /\ Commit(stopDrag(State))
  /\ EnvUnchanged
  /\ History("n/a")

\* logseq.onSettingsChanged
UpdateSettingsWith(inputs) ==
  /\ Ready
  /\ \E st \in inputs : Commit(updateFloatingPlayerSettings(State, st))
  /\ EnvUnchanged
  /\ History("dock:settings")

Destroy ==
  /\ Ready
  /\ floatingContainer \/ observer \/ playListener
  /\ Commit(destroyFloatingPlayer(State))
  /\ EnvUnchanged
  /\ History("dock:teardown")

\* The host editor deletes a sibling node of block B.
HostRemove(t) ==
  /\ Ready
  /\ ParentOf(children, t) # "none"
  /\ Commit([State EXCEPT !.children = RemoveNode(@, t)])
  /\ EnvUnchanged
  /\ History("n/a")

\* getVideoEl(uuid) up to the search of the block itself.
LocateBeginWith(uuid, outcomes) ==
  /\ loc.pc = "idle"
  /\ \E oBlk, oLeft, oParent \in outcomes :
       IF oBlk = "null"
       THEN loc' = [pc |-> "done", uuid |-> uuid, result |-> Null]
            /\ Commit(State)
       ELSE IF oBlk = "throw"
       THEN loc' = [pc |-> "done", uuid |-> uuid, result |-> Rejected]
            /\ Commit(State)
       ELSE IF BlockLeft(uuid) # "none" /\ oLeft = "throw"
       THEN loc' = [pc |-> "done", uuid |-> uuid, result |-> RejectedLeft]
            /\ Commit(State)
       ELSE IF BlockParent(uuid) # "none" /\ oParent = "throw"
       THEN loc' = [pc |-> "done", uuid |-> uuid, result |-> RejectedParent]
            /\ Commit(State)
       ELSE LET r == FloatingCheck(State, uuid,
                                   BlocksToCheck(uuid, oLeft, oParent))
            IN  /\ loc' = [pc |-> r.pc, uuid |-> uuid, result |-> r.result]
                /\ Commit(r.state)
  /\ UNCHANGED <<slotInView, viewport, home, macro>>
  /\ History("dock:locator")

\* The second getBlock(left) resolves; its errors are caught.
LocateLeftWith(outcomes) ==
  /\ loc.pc = "left"
  /\ \E o \in outcomes :
       LET videoEl == IF o = "ok"
                      THEN findVideoInBlock(children, BlockLeft(loc.uuid))
                      ELSE Null
       IN  loc' = IF videoEl # Null
                  THEN [loc EXCEPT !.pc = "done", !.result = videoEl]
                  ELSE [loc EXCEPT !.pc = AfterLeft(loc.uuid)]
  /\ Commit(State)
  /\ UNCHANGED <<slotInView, viewport, home, macro>>
  /\ History("n/a")

\* The second getBlock(parent) resolves; its errors are caught.
LocateParentWith(outcomes) ==
  /\ loc.pc = "parent"
  /\ \E o \in outcomes :
       LET videoEl == IF o = "ok"
                      THEN findVideoInBlock(children, BlockParent(loc.uuid))
                      ELSE Null
       IN  loc' = [loc EXCEPT !.pc = "done", !.result = videoEl]
  /\ Commit(State)
  /\ UNCHANGED <<slotInView, viewport, home, macro>>
  /\ History("n/a")

\* The timestamp button's click handler after getVideoEl returned:
\* videoEl.currentTime = parseInt(time) || 0; videoEl.play().  The 'play' event
\* of a paused video runs handleVideoPlay.
ClickContinuation(s, videoEl, t) ==
  LET s1 == [s EXCEPT !.currentTime[videoEl] = t * TicksPerSecond]
  IN  IF s1.paused[videoEl]
      THEN LET s2 == [s1 EXCEPT !.paused[videoEl] = FALSE]
           IN  IF s2.playListener THEN handleVideoPlay(s2, videoEl) ELSE s2
      ELSE s1

\* The slash command's continuation: a message, or the macro text with the
\* video's current time is inserted; no effect on the engine or the videos.
SlashFinish ==
  /\ loc.pc = "done"
  /\ loc' = Idle
  /\ Commit(State)
  /\ macro' = IF loc.result \in VideoEls
              THEN NumberToString(currentTime[loc.result])
              ELSE macro
  /\ UNCHANGED <<slotInView, viewport, home>>
  /\ History("n/a")

\* The click handler's continuation.
ClickFinishWith(times) ==
  /\ loc.pc = "done"
  /\ loc' = Idle
  /\ IF loc.result \in VideoEls
     THEN \E t \in times : Commit(ClickContinuation(State, loc.result, t))
     ELSE Commit(State)
  /\ UNCHANGED <<slotInView, viewport, home, macro>>
  /\ History("dock:play")

StartDrag == StartDragWith(Grabs)
OnDrag == OnDragWith(Pointers)
UpdateSettings == UpdateSettingsWith(SettingsInputs)
ClickFinish == ClickFinishWith(SeekTimes)
LocateBegin(uuid) == LocateBeginWith(uuid, HostAnswers)
LocateLeft == LocateLeftWith(HostAnswers)
LocateParent == LocateParentWith(HostAnswers)

Next ==
  \/ \E v \in VideoEls : PlayEvent(v)
  \/ \E v \in VideoEls : PauseVideo(v)
  \/ \E v \in VideoEls : Scroll(v)
  \/ \E t \in VideoEls \cup Placeholders : ObserverInitial(t)
  \/ CloseClick
  \/ StartDrag
  \/ OnDrag
  \/ StopDrag
  \/ UpdateSettings
  \/ Destroy
  \/ \E t \in TextNodes : HostRemove(t)
  \/ \E uuid \in Blocks : LocateBegin(uuid)
  \/ LocateLeft
  \/ LocateParent
  \/ SlashFinish
  \/ ClickFinish

Spec == Init /\ [][Next]_vars

\* ---------------------------------------------------------- SpecDrag
InitDrag ==
  InitWith(DragViewports, DragSettingsInputs, {SpreadHome},
           {[v \in VideoEls |-> TRUE]})

StartDragAnywhere == StartDragWith(DragGrabs)
OnDragAnywhere == OnDragWith(DragPointers)
UpdateSettingsAnySize == UpdateSettingsWith(DragSettingsInputs)

NextDrag ==
  \/ PlayEvent(Vid(1))
  \/ Scroll(Vid(1))
  \/ \E t \in VideoEls \cup Placeholders : ObserverInitial(t)
  \/ CloseClick
  \/ StartDragAnywhere
  \/ OnDragAnywhere
  \/ StopDrag
  \/ UpdateSettingsAnySize

SpecDrag == InitDrag /\ [][NextDrag]_vars

\* ------------------------------------------------------ SpecPlayback
InitPlayback ==
  InitWith(Viewports, SettingsInputs, {SpreadHome}, [VideoEls -> BOOLEAN])

ClickFinishAnyTime == ClickFinishWith(PlaybackSeekTimes)

NextPlayback ==
  \/ \E v \in VideoEls : PlayEvent(v)
  \/ \E v \in VideoEls : PauseVideo(v)
  \/ \E v \in VideoEls : Scroll(v)
  \/ \E t \in VideoEls \cup Placeholders : ObserverInitial(t)
  \/ CloseClick
  \/ UpdateSettings
  \/ Destroy
  \/ \E uuid \in Blocks : LocateBegin(uuid)
  \/ LocateLeft
  \/ LocateParent
  \/ SlashFinish
  \/ ClickFinishAnyTime

SpecPlayback == InitPlayback /\ [][NextPlayback]_vars

\* ============================================================ claims
\* Steps on which video v starts to play: a 'play' event on v.
PlayStarts(v) == paused[v] /\ ~paused'[v]

\* The node n occurs this many times in the document.
Occurrences(n) ==
  Cardinality(UNION {{<<c, i>> : i \in {j \in 1..Len(children[c]) :
                                          children[c][j] = n}} :
                     c \in Containers})

AttachedPlaceholders == {p \in Placeholders : Occurrences(p) > 0}

\* C1: the floating container never holds more than one video, and on every
\* step on which a video b starts to play while another video is floating,
\* that video is back in its original parent at its original sibling position
\* (the parent's child list is what it was when the video left, if the host
\* did not edit it meanwhile), its placeholder is out of the document, and b
\* is the tracked video.
C1_SingleFloatingVideo ==
  /\ [](Len(children[FC]) <= 1)
  /\ [][\A b \in VideoEls :
          (isFloating /\ videoState.video # b /\ PlayStarts(b)) =>
            /\ ~isFloating'
            /\ children'[FC] = <<>>
            /\ ParentOf(children', videoState.video) = videoState.originalParent
            /\ ~snap.touched =>
                 children'[videoState.originalParent] = snap.seq
            /\ ParentOf(children', videoState.placeholder) = "none"
            /\ recentlyPlayedVideo' = b]_vars

\* C1's case: a play event on Vid(2) has just returned the floating Vid(1).
C1_Witness ==
  /\ lastTransition = "dock:play"
  /\ recentlyPlayedVideo = Vid(2)
  /\ ~paused[Vid(2)]
  /\ ParentOf(children, Vid(1)) = home[Vid(1)]
  /\ children[home[Vid(1)]] = snap.seq

\* C2: the engine holds a floating state (isFloating with a non-null
\* videoState) exactly when a video is a child of the floating container, and
\* then it is the video the state owns; every video is at exactly one place,
\* its original block or the floating container.
C2_StateMatchesDom ==
  /\ isFloating <=> videoState # NoState
  /\ (isFloating /\ videoState # NoState)
       <=> (\E v \in VideoEls : ParentOf(children, v) = FC)
  /\ isFloating => ParentOf(children, videoState.video) = FC
  /\ \A v \in VideoEls :
       /\ Occurrences(v) = 1
       /\ ParentOf(children, v) \in {home[v], FC}
       /\ ParentOf(children, v) = FC => videoState.video = v

\* C2's case: Vid(1) floats while Vid(2) is docked in its block.
C2_Witness ==
  /\ isFloating
  /\ videoState.video = Vid(1)
  /\ ParentOf(children, Vid(1)) = FC
  /\ ParentOf(children, Vid(2)) = home[Vid(2)]

\* C3: a placeholder is in the document exactly while a video is floating;
\* there is never more than one; it is the floating state's placeholder and
\* sits in the video's original parent at the video's former slot (right
\* before the recorded next sibling while that is still there; the parent's
\* child list with the video put back for the placeholder is what it was,
\* if the host did not edit it meanwhile).
C3_PlaceholderIffFloating ==
  /\ (AttachedPlaceholders # {}) <=> isFloating
  /\ Cardinality(AttachedPlaceholders) <= 1
  /\ \A p \in Placeholders : Occurrences(p) <= 1
  /\ isFloating =>
       LET p == videoState.placeholder
           parent == videoState.originalParent
           next == videoState.originalNextSibling
       IN  /\ AttachedPlaceholders = {p}
           /\ ParentOf(children, p) = parent
           /\ (next # Null /\ ParentOf(children, next) = parent)
                => NextSibling(children, p) = next
           /\ ~snap.touched =>
                [i \in 1..Len(children[parent]) |->
                   IF children[parent][i] = p THEN videoState.video
                   ELSE children[parent][i]] = snap.seq

\* C3's case: a video floats whose slot was not the last of its parent.
C3_Witness ==
  /\ isFloating
  /\ ParentOf(children, videoState.placeholder) = videoState.originalParent
  /\ videoState.originalNextSibling # Null
  /\ NextSibling(children, videoState.placeholder)
       = videoState.originalNextSibling

\* C4: every step that returns the floating video puts it into its original
\* parent, right before the recorded next sibling if that is still a child of
\* that parent and as the last child otherwise; if the host did not edit the
\* parent while the video was away, the parent's child list is what it was
\* before the video left.
C4_RoundTrip ==
  [][(isFloating /\ ~isFloating') =>
       LET video == videoState.video
           parent == videoState.originalParent
           next == videoState.originalNextSibling
       IN  /\ ParentOf(children', video) = parent
           /\ IF next # Null /\ ParentOf(children, next) = parent
              THEN NextSibling(children', video) = next
              ELSE NextSibling(children', video) = Null
           /\ ~snap.touched => children'[parent] = snap.seq]_vars

\* C4's case: the video has just been returned as the last child because the
\* host deleted its recorded next sibling while it was floating.
C4_Witness ==
  /\ lastTransition \in DockKinds
  /\ snap.touched
  /\ \E v \in VideoEls :
       /\ v \in Range(snap.seq)
       /\ IndexOf(snap.seq, v) < Len(snap.seq)
       /\ snap.seq[IndexOf(snap.seq, v) + 1] \in TextNodes
       /\ ParentOf(children, v) = "B"
       /\ NextSibling(children, v) = Null

\* C5: on every step on which the tracked video's place scrolls out of view
\* while the engine is DOCKED with that video tracked, not manually hidden and
\* enabled, the engine becomes FLOATING.
C5_ScrollOutFloats ==
  [][\A v \in VideoEls :
       (/\ ~isFloating
        /\ recentlyPlayedVideo = v
        /\ ~isManuallyHidden
        /\ currentSettings.enabled
        /\ slotInView[v] /\ ~slotInView'[v]) => isFloating']_vars

\* C6: a click on the close button while FLOATING leaves the engine DOCKED
\* with the manual-hide flag set; while the flag is set, every step that is not
\* a play event leaves the engine DOCKED and the flag set (or the engine torn
\* down, after which nothing floats): no visibility event floats the video
\* before the next play event.
C6_CloseSuppresses ==
  /\ [](isFloating => floatingContainer /\ ~isManuallyHidden)
  /\ [][/\ (isFloating /\ CloseClick) => (~isFloating' /\ isManuallyHidden')
        /\ (isManuallyHidden /\ ~(\E v \in VideoEls : PlayStarts(v)))
             => /\ ~isFloating'
                /\ isManuallyHidden' \/ ~floatingContainer']_vars

\* C6's case: after a close the tracked video's place is out of view, the
\* engine is enabled, and the video stays docked.
C6_Witness ==
  /\ isManuallyHidden
  /\ ~isFloating
  /\ currentSettings.enabled
  /\ recentlyPlayedVideo \in VideoEls
  /\ ~slotInView[recentlyPlayedVideo]
  /\ queued = {}
  /\ lastTransition = "none"

\* C7: every play event lifts the suppression a close has set, whether it is
\* on a new video or on the tracked one.
C7_PlayLiftsSuppression ==
  [][\A v \in VideoEls :
       (isManuallyHidden /\ PlayStarts(v)) => ~isManuallyHidden']_vars

\* C8 as stated: after every drag-move the container's rectangle lies inside
\* the viewport with a 10px margin on all four sides.
C8_InsideViewport ==
  [][(OnDragAnywhere /\ isDragging) =>
       LET size == SIZE_MAP[currentSettings.size]
       IN  /\ style'.left >= 10
           /\ style'.top >= 10
           /\ style'.left + size.width <= viewport.width - 10
           /\ style'.top + size.height <= viewport.height - 10]_vars

\* C8, amended: after every drag-move left >= 10 and top >= 10; the right
\* bound left + width <= vw - 10 holds when the viewport is at least
\* width + 20 wide, and the bottom bound top + height <= vh - 10 when it is at
\* least height + 20 high; width and height are those of the current size
\* setting, which are the container's while it is displayed.
C8_ClampedWhereItFits ==
  [][(OnDragAnywhere /\ isDragging) =>
       LET size == SIZE_MAP[currentSettings.size]
       IN  /\ style'.left >= 10
           /\ style'.top >= 10
           /\ viewport.width >= size.width + 20
                => style'.left + size.width <= viewport.width - 10
           /\ viewport.height >= size.height + 20
                => style'.top + size.height <= viewport.height - 10
           /\ style'.display = "block"
                => style'.width = size.width /\ style'.height = size.height]_vars

\* C8's case: a drag-move with the pointer left of and below the viewport has
\* put the displayed container at the left margin and the bottom margin.
C8_Witness ==
  /\ isDragging
  /\ style.display = "block"
  /\ style.anchor = "lefttop"
  /\ style.left = 10
  /\ style.top > 10
  /\ style.top + style.height = viewport.height - 10

\* The video a DOCKED <-> FLOATING step moves.
MovedVideo == IF isFloating THEN videoState.video ELSE videoState'.video

\* C9 as stated: every step that changes DOCKED <-> FLOATING leaves the moved
\* video's paused flag and playback position unchanged.
C9_PlaybackUntouched ==
  [][(isFloating # isFloating') =>
       /\ paused'[MovedVideo] = paused[MovedVideo]
       /\ currentTime'[MovedVideo] = currentTime[MovedVideo]]_vars

\* C9, amended: every step that changes DOCKED <-> FLOATING leaves the moved
\* video's playback position unchanged, and its paused flag unchanged unless
\* the step is the locator's return of the floating video, which leaves the
\* video paused.
C9_PlaybackKeptButLocatorPauses ==
  [][(isFloating # isFloating') =>
       /\ currentTime'[MovedVideo] = currentTime[MovedVideo]
       /\ IF loc.pc = "idle" /\ loc'.pc # "idle"
          THEN paused'[MovedVideo]
          ELSE paused'[MovedVideo] = paused[MovedVideo]]_vars

\* C9's case: the locator has just returned a floating video that had been
\* sought to 125 s; the video is paused at 125 s.
C9_Witness ==
  /\ lastTransition = "dock:locator"
  /\ \E v \in VideoEls :
       /\ v \in Range(snap.seq)
       /\ paused[v]
       /\ currentTime[v] = 125 * TicksPerSecond

\* C10: in every engine state, a locate for a block whose own subtree contains
\* a video returns at once, with a video of that block.
C10_OwnBlockFirst ==
  [][\A uuid \in Blocks :
       (/\ loc.pc = "idle" /\ loc'.pc # "idle" /\ loc'.uuid = uuid
        /\ findVideoInBlock(children, uuid) # Null)
       => /\ loc'.pc = "done"
          /\ loc'.result \in VideoEls
          /\ home[loc'.result] = uuid]_vars

\* ---------------------------------------------------------- SpecMacro
\* Timestamp macros: the slash command inserts the macro at whatever position
\* playback has reached, and the button clicked is the one of that macro.
InitMacro ==
  InitWith(Viewports, [enabled : {TRUE}, size : Sizes],
           {SpreadHome, ParentHome}, [VideoEls -> BOOLEAN])

\* 'timeupdate': the playback position of the playing video v advances.
TimeUpdate(v) ==
  /\ Ready
  /\ ~paused[v]
  /\ \E t \in MacroTimes :
       /\ t > currentTime[v]
       /\ Commit([State EXCEPT !.currentTime[v] = t])
  /\ EnvUnchanged
  /\ History("n/a")

ClickFinishMacro == ClickFinishWith({ClickTime(macro)})

NextMacro ==
  \/ \E v \in VideoEls : PlayEvent(v)
  \/ \E v \in VideoEls : PauseVideo(v)
  \/ \E v \in VideoEls : TimeUpdate(v)
  \/ \E uuid \in Blocks : LocateBegin(uuid)
  \/ LocateLeft
  \/ LocateParent
  \/ SlashFinish
  \/ ClickFinishMacro

SpecMacro == InitMacro /\ [][NextMacro]_vars

\* C11: the macro the slash command inserts for a video at playback time t
\* renders a button labelled 'Timestamp: <floor(t)>s' whose click seeks to
\* floor(t); a click on the button sets the located video's position to the
\* button's time and leaves the video playing.
C11_MacroRoundTrip ==
  [][/\ (SlashFinish /\ loc.result \in VideoEls) =>
          LET floor == currentTime[loc.result] \div TicksPerSecond
          IN  /\ ButtonLabel(macro')
                   = <<"Timestamp: ">> \o NatToString(floor) \o <<"s">>
              /\ ClickTime(macro') = floor
     /\ (ClickFinishMacro /\ loc.result \in VideoEls) =>
          /\ currentTime'[loc.result] = ClickTime(macro) * TicksPerSecond
          /\ ~paused'[loc.result]]_vars

\* C12: on every step on which the floating video's place (its placeholder)
\* comes back into view, the engine becomes DOCKED: the video is in its
\* original parent, the placeholder is out of the document, the container is
\* hidden, the manual-hide flag is clear and the observer watches the video
\* and nothing else.
C12_DockOnReentry ==
  [][\A v \in VideoEls :
       (isFloating /\ videoState.video = v
          /\ ~slotInView[v] /\ slotInView'[v]) =>
         /\ ~isFloating'
         /\ ParentOf(children', v) = videoState.originalParent
         /\ ParentOf(children', videoState.placeholder) = "none"
         /\ style'.display = "none"
         /\ ~isManuallyHidden'
         /\ observed' = {v}]_vars

\* C12's case: the placeholder has just come back into view and the video is
\* docked and watched again.
C12_Witness ==
  /\ lastTransition = "dock:visibility"
  /\ recentlyPlayedVideo \in VideoEls
  /\ slotInView[recentlyPlayedVideo]
  /\ ParentOf(children, recentlyPlayedVideo) = home[recentlyPlayedVideo]
  /\ observed = {recentlyPlayedVideo}
  /\ style.display = "none"

\* C13: the engine is never FLOATING while the enabled setting is false; a
\* step that sets enabled to false while FLOATING leaves the engine DOCKED
\* with the video in its original parent and the placeholder out of the
\* document; no step floats a video while enabled is false.
C13_NeverFloatingWhileDisabled ==
  /\ [](isFloating => currentSettings.enabled)
  /\ [][/\ (isFloating /\ ~currentSettings'.enabled) =>
             /\ ~isFloating'
             /\ ParentOf(children', videoState.video)
                  = videoState.originalParent
             /\ ParentOf(children', videoState.placeholder) = "none"
        /\ (~currentSettings.enabled /\ ~currentSettings'.enabled)
             => ~isFloating']_vars

\* C13's case: a settings update has just disabled the engine and returned
\* the floating video; its place is still out of view.
C13_Witness ==
  /\ lastTransition = "dock:settings"
  /\ ~currentSettings.enabled
  /\ recentlyPlayedVideo \in VideoEls
  /\ ~slotInView[recentlyPlayedVideo]
  /\ ParentOf(children, recentlyPlayedVideo) = home[recentlyPlayedVideo]

\* What a 'play' event on video v makes of engine state s.
AfterPlay(s, v) ==
  LET s1 == [s EXCEPT !.paused[v] = FALSE]
  IN  IF s.playListener THEN handleVideoPlay(s1, v) ELSE s1

\* What video v's place scrolling out of view makes of engine state s.
AfterScrollOut(s, v) ==
  IF s.observer /\ v \in s.observed
  THEN handleIntersection(s, v, FALSE)
  ELSE s

\* C14: after every settings update that leaves enabled true, float
\* transitions work: a docked, tracked, not manually hidden video whose place
\* scrolls out of view is floated, and so is a video that is played first
\* and whose place then scrolls out of view.
C14_EnableTakesEffect ==
  [][(UpdateSettings /\ currentSettings'.enabled /\ ~isManuallyHidden') =>
       \A v \in VideoEls :
         /\ (recentlyPlayedVideo' = v /\ ~isFloating')
              => AfterScrollOut(State', v).isFloating
         /\ paused'[v]
              => AfterScrollOut(AfterPlay(State', v), v).isFloating]_vars

\* C15: every teardown step, from any state, leaves every video in its
\* original block and no placeholder in the document, no play, mouse-move or
\* mouse-up listener attached, the observer gone and watching nothing, the
\* container removed, and the tracked video, the floating state, the
\* manual-hide flag and the drag state cleared.
C15_TeardownClearsAll ==
  [][Destroy =>
       /\ \A v \in VideoEls : ParentOf(children', v) = home[v]
       /\ \A p \in Placeholders : ParentOf(children', p) = "none"
       /\ ~playListener'
       /\ ~dragDoc'
       /\ ~observer' /\ observed' = {}
       /\ ~floatingContainer'
       /\ recentlyPlayedVideo' = Null
       /\ videoState' = NoState /\ ~isFloating'
       /\ ~isManuallyHidden'
       /\ ~isDragging']_vars

\* C16: after every play event and every DOCKED <-> FLOATING step, if a
\* video is tracked and the observer exists, the observer watches exactly the
\* placeholder when the engine is FLOATING and exactly the tracked video when
\* it is DOCKED.
C16_ObserverRetargeted ==
  [][(/\ (\E v \in VideoEls : PlayStarts(v)) \/ isFloating # isFloating'
      /\ recentlyPlayedVideo' # Null
      /\ observer')
     => observed' = {IF isFloating' THEN videoState'.placeholder
                     ELSE recentlyPlayedVideo'}]_vars

\* The blocks a locate for block uuid looks at.
Candidates(uuid) == {uuid, BlockLeft(uuid), BlockParent(uuid)} \ {"none"}

InitHost ==
  InitWith(Viewports, [enabled : {TRUE}, size : Sizes], HomeChoices,
           [VideoEls -> BOOLEAN])

LocateBeginAnyAnswer(uuid) == LocateBeginWith(uuid, Outcomes)
LocateLeftAnyAnswer == LocateLeftWith(Outcomes)
LocateParentAnyAnswer == LocateParentWith(Outcomes)

NextHost ==
  \/ \E v \in VideoEls : PlayEvent(v)
  \/ \E v \in VideoEls : PauseVideo(v)
  \/ \E v \in VideoEls : Scroll(v)
  \/ \E t \in VideoEls \cup Placeholders : ObserverInitial(t)
  \/ \E uuid \in Blocks : LocateBeginAnyAnswer(uuid)
  \/ LocateLeftAnyAnswer
  \/ LocateParentAnyAnswer
  \/ SlashFinish
  \/ ClickFinish

SpecHost == InitHost /\ [][NextHost]_vars

\* C18: a locate for a block whose own subtree holds a video, started while
\* nothing floats, is not failed by the lookup of the left sibling or of the
\* parent: unless the lookup of the block itself fails (null or an error),
\* it returns at once with a video of the block.
C18_SiblingErrorsSkipped ==
  [][\A uuid \in Blocks :
       (/\ ~isFloating
        /\ loc.pc = "idle" /\ loc'.pc # "idle" /\ loc'.uuid = uuid
        /\ findVideoInBlock(children, uuid) # Null
        /\ loc'.result \notin {Null, Rejected})
       => /\ loc'.pc = "done"
          /\ loc'.result \in VideoEls
          /\ home[loc'.result] = uuid]_vars

\* C19: every step of a drag gesture (pointer-down on the handle, pointer-move,
\* pointer-up) leaves DOCKED/FLOATING, FloatingState, the tracked video, the
\* manually-hidden flag, the settings and the whole DOM (so the placeholder and
\* the video's parent) unchanged; of the container's style only the position
\* (anchor, left, top) may change.
C19_DragFrame ==
  [][(StartDragAnywhere \/ OnDragAnywhere \/ StopDrag)
       => /\ UNCHANGED <<isFloating, videoState, recentlyPlayedVideo,
                         isManuallyHidden, currentSettings, children,
                         floatingContainer, observer, observed, queued,
                         playListener, videoStyle, savedStyles, paused,
                         currentTime>>
          /\ style'.display = style.display
          /\ style'.width = style.width
          /\ style'.height = style.height]_vars

\* C19's case: a whole gesture has moved the container (it is positioned by
\* left/top and the drag is over) and the video still floats in it.
C19_Witness ==
  /\ isFloating
  /\ ~isDragging
  /\ ~dragDoc
  /\ style.anchor = "lefttop"
  /\ style.display = "block"
  /\ ParentOf(children, videoState.video) = FC

\* C20: in every reachable state the mousemove/mouseup listeners are on the
\* document exactly when isDragging is true, and every pointer-up removes them
\* and clears isDragging in the same step.
C20_ListenersIffDragging ==
  /\ [](dragDoc <=> isDragging)
  /\ [][StopDrag => ~dragDoc' /\ ~isDragging']_vars

\* C20's case: a drag is active, with its listeners attached, right after the
\* observer returned the video in the middle of the gesture.
C20_Witness ==
  /\ isDragging
  /\ dragDoc
  /\ lastTransition = "dock:visibility"
  /\ ~isFloating

\* C21: whenever the engine is DOCKED and the container exists (a never-used
\* container is created hidden at the corner, so this covers every state after
\* a return-to-origin), the container is hidden and positioned at the default
\* corner: right/bottom in effect, no left/top -- also when drag-moves
\* interleave with the event that returned the video.
C21_DockedAtCorner ==
  (~isFloating /\ floatingContainer)
    => /\ style.display = "none"
       /\ style.anchor = "corner"

\* C22: whenever the engine is FLOATING, the floating video is the tracked
\* video: videoState.video = recentlyPlayedVideo.
C22_FloatingIsTracked ==
  isFloating => /\ videoState # NoState
                /\ videoState.video = recentlyPlayedVideo

\* C22's case: the second video floats and is the tracked one while the first
\* video is playing too and is back in its block, and the container has been
\* dragged.
C22_Witness ==
  /\ isFloating
  /\ videoState.video = Vid(2)
  /\ recentlyPlayedVideo = Vid(2)
  /\ ~paused[Vid(1)]
  /\ ParentOf(children, Vid(1)) = home[Vid(1)]
  /\ style.anchor = "lefttop"

\* C23: a settings update that changes the size while the video floats in a
\* container that was dragged to a position inside the 10px margins, in a
\* viewport with room for the new size and its margins, leaves the container
\* inside the margins: left + width <= viewport width - 10 and
\* top + height <= viewport height - 10.
C23_ResizeStaysInside ==
  [][(/\ UpdateSettingsAnySize
      /\ isFloating /\ isFloating'
      /\ style.display = "block"
      /\ style.anchor = "lefttop"
      /\ currentSettings'.size # currentSettings.size
      /\ style.left >= 10 /\ style.top >= 10
      /\ style.left + style.width <= viewport.width - 10
      /\ style.top + style.height <= viewport.height - 10
      /\ viewport.width >= SIZE_MAP[currentSettings'.size].width + 20
      /\ viewport.height >= SIZE_MAP[currentSettings'.size].height + 20)
     => /\ style'.left + style'.width <= viewport.width - 10
        /\ style'.top + style'.height <= viewport.height - 10]_vars

====
